---- MODULE Spec2Model ----
(***************************************************************************)
(* Model of SieveWebSocketClient                                           *)
(* (src/web/static/libs/libManageSieve/SieveClient.mjs): the websocket     *)
(* transport of the sieve client.  The state is the fields of one client   *)
(* instance, the WebSocket objects it has created, the async disconnect()  *)
(* invocations (suspended at an await, or finished), and the calls made on *)
(* the listener.  Strings are sequences of one-character strings.          *)
(***************************************************************************)
EXTENDS Integers, Sequences, FiniteSets, Bags, TLC

\* ------------------------------------------------------------------ bounds
\* WebSocket objects one run may create.
MaxChannels == 2
\* disconnect() calls of the owning client that may be in flight at once.
MaxCalls == 2

\* Characters a generated url may have after its scheme.
MaxRest == 4

\* ------------------------------------------------------------- JS values
\* this.socket = null
Null == 0

\* The value of a field that was never assigned, or of a capture group that
\* did not take part in the match.
Undefined == <<"<undefined>">>

\* What a template literal ${v} puts into the string.
Interpolate(v) ==
    IF v = Undefined THEN <<"u", "n", "d", "e", "f", "i", "n", "e", "d">> ELSE v

Digits == {"0", "1", "2", "3", "4", "5", "6", "7", "8", "9"}

SievePrefix == <<"s", "i", "e", "v", "e", ":", "/", "/">>

\* ------------------------------------------------------------ url parsing
StartsWith(s, p) ==
    /\ Len(s) >= Len(p)
    /\ SubSeq(s, 1, Len(p)) = p

\* Index of the first ":" of s, or 0.
FirstColon(s) ==
    IF \E i \in 1..Len(s) : s[i] = ":"
    THEN CHOOSE i \in 1..Len(s) : s[i] = ":" /\ \A j \in 1..(i - 1) : s[j] # ":"
    ELSE 0

\* \d in place of \d+ : one digit and no more.
DigitRunSingle(s) == IF Len(s) >= 1 /\ s[1] \in Digits THEN 1 ELSE 0

\* Length of the longest prefix of s made of digits.
DigitRun(s) ==
    IF \E i \in 1..Len(s) : s[i] \notin Digits
    THEN (CHOOSE i \in 1..Len(s) :
              s[i] \notin Digits /\ \A j \in 1..(i - 1) : s[j] \in Digits) - 1
    ELSE Len(s)

\* [^:]* in place of [^:]+ : an empty host passes.
HostOkEmptyAllowed(colon) == colon >= 1

\* [^:]+ : the host must have at least one character before the colon at
\* index colon.
HostOk(colon) == colon >= 2

NoMatch == [ok |-> FALSE, host |-> Undefined, port |-> Undefined, endpoint |-> Undefined]

\* /^sieve:\/\/(?<host>[^:]+):(?<port>\d+)(\/(?<endpoint>.*))?$/gs  on url.
\* The host runs to the first colon (it cannot contain one and must be
\* followed by one), the port is the whole run of digits after it (what
\* follows a shorter run is a digit, which is neither "/" nor the end), and
\* the rest is empty or "/" and anything.
RegexExec(url) ==
    IF ~StartsWith(url, SievePrefix) THEN NoMatch
    ELSE
      LET rest  == SubSeq(url, Len(SievePrefix) + 1, Len(url))
          colon == FirstColon(rest)
      IN
      IF ~HostOk(colon) THEN NoMatch
      ELSE
        LET after == SubSeq(rest, colon + 1, Len(rest))
            nd    == DigitRun(after)
            tail  == SubSeq(after, nd + 1, Len(after))
        IN
        IF nd = 0 THEN NoMatch
        ELSE IF tail = <<>> THEN
          [ok |-> TRUE, host |-> SubSeq(rest, 1, colon - 1),
           port |-> SubSeq(after, 1, nd), endpoint |-> Undefined]
        ELSE IF tail[1] = "/" THEN
          [ok |-> TRUE, host |-> SubSeq(rest, 1, colon - 1),
           port |-> SubSeq(after, 1, nd), endpoint |-> Tail(tail)]
        ELSE NoMatch

\* `wss://${host}:${port}/${endpoint}` or `ws://${host}:${port}/${endpoint}`
SocketAddress(sec, h, p, e) ==
    (IF sec THEN <<"w", "s", "s">> ELSE <<"w", "s">>)
      \o <<":", "/", "/">> \o Interpolate(h) \o <<":">> \o Interpolate(p)
      \o <<"/">> \o Interpolate(e)

\* ------------------------------------------------------------------ inputs
UrlPlain     == SievePrefix \o <<"h", ":", "1">>
UrlWithPath  == SievePrefix \o <<"h", ":", "1", "/", "p">>
UrlNoPort    == SievePrefix \o <<"h">>
UrlBadScheme == <<"h", "t", "t", "p", ":", "/", "/", "h", ":", "1">>
UrlNoHost    == SievePrefix \o <<":", "1">>

\* The urls the owning client passes to connect().
Urls == {UrlPlain, UrlWithPath, UrlNoPort, UrlBadScheme, UrlNoHost}

\* The text payload that is sent and received, as code points: "O", e-acute.
Payload == <<79, 233>>

\* new TextEncoder("UTF-8").encode(text), for code points below 65536.
RECURSIVE Utf8(_)
Utf8(text) ==
    IF text = <<>> THEN <<>>
    ELSE LET cp == Head(text)
             bytes == IF cp < 128 THEN <<cp>>
                      ELSE IF cp < 2048 THEN <<192 + (cp \div 64), 128 + (cp % 64)>>
                      ELSE <<224 + (cp \div 4096), 128 + ((cp \div 64) % 64),
                             128 + (cp % 64)>>
         IN bytes \o Utf8(Tail(text))

\* ev.message of an error event.
ErrorMessage == <<"e">>

\* The listener's optional hooks.
Hooks == {"onError", "onDisconnect", "onDisconnected"}

\* this.listener was never set.
NoListener == {"<no listener>"}

\* The listeners of a run: none, and listeners with and without each hook.
Listeners == {NoListener, {"onError"}, {"onDisconnect", "onDisconnected"}}

\* (this.listener) && (this.listener.hook)
HasHook(l, hook) == l # NoListener /\ hook \in l

\* ------------------------------------------------------------------- state
VARIABLES
    socket,     \* this.socket: Null or the index in chan of the WebSocket held
    secure,     \* this.secure
    secured,    \* this.secured
    host,       \* this.host
    port,       \* this.port
    endpoint,   \* this.endpoint
    listener,   \* this.listener: NoListener or the set of hooks it has
    chan,       \* the WebSocket objects created so far, in creation order
    conn,       \* the connection in being: the secure argument of the
                \* connect() call that made the WebSocket held, and whether
                \* its open event was handled
    tasks,      \* the disconnect() invocations in flight, a bag
    last        \* the operation or handler that ran last: its outcome, the
                \* WebSocket it was about, the listener hook it called and
                \* the data it handed on (to a hook, to onReceive, to the wire)

self == <<socket, secure, secured, host, port, endpoint>>

vars == <<socket, secure, secured, host, port, endpoint, listener, chan, conn,
          tasks, last>>

Did(op, ret, c) == [op |-> op, ret |-> ret, chan |-> c, note |-> "none", data |-> <<>>]

\* isSecure()
isSecure == secure

\* isSecured()
isSecured == secured

\* No connection is in being.
NoConn == [secureArg |-> FALSE, opened |-> FALSE]

\* constructor(logger)
Init ==
    /\ socket = Null
    /\ secure = TRUE
    /\ secured = FALSE
    /\ host = Undefined
    /\ port = Undefined
    /\ endpoint = Undefined
    /\ listener \in Listeners
    /\ chan = <<>>
    /\ conn = NoConn
    /\ tasks = EmptyBag
    /\ last = Did("new", "this", Null)

\* ---------------------------------------------------------------- WebSocket
\* new WebSocket(address): the connection attempt starts.  closeCalls counts
\* the close() calls made on it, closedBy is the origin of the disconnect()
\* that first called close() on it, and released the number of
\* onDisconnected calls made after closing it.
NewWebSocket ==
    [state |-> "connecting", closeCalls |-> 0, closedBy |-> "nobody", released |-> 0]

\* WebSocket.close(): starts the closing handshake, or fails the connection
\* attempt; nothing on a socket that is closing or closed.
WebSocketClose(ws, by) ==
    [ws EXCEPT !.state = IF @ \in {"connecting", "open"} THEN "closing" ELSE @,
               !.closeCalls = @ + 1,
               !.closedBy = IF @ = "nobody" THEN by ELSE @]

\* The states in which a WebSocket still has its close event to deliver.
Live == {"connecting", "open", "closing"}

\* ------------------------------------------------------------------ connect
\* connect() without its guard.
AlreadyConnectedNever(sock) == FALSE

\* if (this.socket) return this;
AlreadyConnected(sock) == sock # Null

\* this.secure left at the constructor's value.
RequestedSecureDefault(arg) == TRUE

\* this.secure = secure;
RequestedSecure(arg) == arg

\* connect() without the reset of this.secured.
SecuredAtConnectKept(secd) == secd

\* this.secured = false;
SecuredAtConnect(secd) == FALSE

\* connect(url, secure)
Connect(url, sec) ==
    LET m == RegexExec(url) IN
    IF AlreadyConnected(socket) THEN
        /\ last' = Did("connect", "this", socket)
        /\ UNCHANGED <<self, listener, chan, conn, tasks>>
    ELSE IF ~m.ok THEN
        /\ last' = Did("connect", "InvalidUrl", socket)
        /\ UNCHANGED <<self, listener, chan, conn, tasks>>
    ELSE
        /\ Len(chan) < MaxChannels
        /\ host' = m.host
        /\ port' = m.port
        /\ endpoint' = m.endpoint
        /\ secure' = RequestedSecure(sec)
        /\ secured' = SecuredAtConnect(secured)
        /\ chan' = Append(chan, NewWebSocket)
        /\ socket' = Len(chan')
        /\ conn' = [secureArg |-> sec, opened |-> FALSE]
        /\ last' = [Did("connect", "this", socket') EXCEPT
                        !.data = SocketAddress(secure', host', port', endpoint')]
        /\ UNCHANGED <<listener, tasks>>

\* ----------------------------------------------------------------- startTLS
\* A startTLS() that upgrades, as an upgrade-capable transport would.
StartTLSUpgrades(secd) == [ret |-> "resolved", secured |-> TRUE]

\* throw new Error("WebSockets do not support starttls"): the promise of the
\* async function is rejected and nothing is assigned.
StartTLSOutcome(secd) == [ret |-> "UnsupportedOperation", secured |-> secd]

\* startTLS()
StartTLS ==
    /\ secured' = StartTLSOutcome(secured).secured
    /\ last' = Did("startTLS", StartTLSOutcome(secured).ret, socket)
    /\ UNCHANGED <<socket, secure, host, port, endpoint, listener, chan, conn,
                   tasks>>

\* --------------------------------------------------------------- disconnect
\* The part of disconnect(reason) that runs in the caller's turn: the log
\* line, the call of super.disconnect(reason), and the suspension at the
\* await.  origin tells a call of the owning client from a call of the close
\* handler.
NewTask(origin) ==
    [origin |-> origin, pc |-> "super"]

\* super.disconnect(reason): the base client's bookkeeping.  It touches none
\* of the fields of this class.
SuperDisconnect == UNCHANGED <<self, listener, chan, conn>>

\* The disconnect() calls of the owning client that are in flight.
CallsInFlight ==
    BagCardinality([t \in {u \in BagToSet(tasks) : u.origin = "caller"} |-> tasks[t]])

\* A disconnect() call of the owning client.
Disconnect ==
    /\ CallsInFlight < MaxCalls
    /\ tasks' = tasks (+) SetToBag({NewTask("caller")})
    /\ SuperDisconnect
    /\ last' = Did("disconnect", "pending", socket)

\* disconnect() without its guard.
NoValidSocketNever(sock) == FALSE

\* if (!this.socket) { ...; return; }
NoValidSocket(sock) == sock = Null

\* disconnect() without the clearing of this.socket.
ClearedSocketKept(sock) == sock

\* this.socket = null;
ClearedSocket(sock) == Null

\* if ((this.listener) && (this.listener.onDisconnected))
NotifiesDisconnected(l) == HasHook(l, "onDisconnected")

\* disconnect() from the end of `await super.disconnect(reason)` to its next
\* await, or to its end.
Teardown(t) ==
    /\ t.pc = "super"
    /\ IF NoValidSocket(socket) THEN
           /\ tasks' = tasks (-) SetToBag({t})
           /\ last' = Did("teardown", "resolved", Null)
           /\ UNCHANGED <<socket, chan, conn>>
       ELSE IF socket = Null THEN
           \* null.close() is a TypeError: the promise is rejected.
           /\ tasks' = tasks (-) SetToBag({t})
           /\ last' = Did("teardown", "TypeError", Null)
           /\ UNCHANGED <<socket, chan, conn>>
       ELSE
           /\ socket' = ClearedSocket(socket)
           /\ conn' = IF socket' = Null THEN NoConn ELSE conn
           /\ chan' = [chan EXCEPT ![socket] =
                  [WebSocketClose(@, t.origin) EXCEPT !.released =
                       IF NotifiesDisconnected(listener) THEN @ + 1 ELSE @]]
           /\ IF NotifiesDisconnected(listener) THEN
                  /\ tasks' = (tasks (-) SetToBag({t}))
                                (+) SetToBag({[t EXCEPT !.pc = "notify"]})
                  /\ last' = [Did("teardown", "pending", socket) EXCEPT
                                  !.note = "onDisconnected"]
              ELSE
                  /\ tasks' = tasks (-) SetToBag({t})
                  /\ last' = Did("teardown", "resolved", socket)
    /\ UNCHANGED <<secure, secured, host, port, endpoint, listener>>

\* disconnect() from the end of `await this.listener.onDisconnected()` on.
TeardownDone(t) ==
    /\ t.pc = "notify"
    /\ tasks' = tasks (-) SetToBag({t})
    /\ last' = Did("teardownDone", "resolved", Null)
    /\ UNCHANGED <<self, listener, chan, conn>>

\* ------------------------------------------------------------------- events
\* onOpen() without the test of this.secure.
OnOpenSecuredAlways(sec, secd) == TRUE

\* if (this.secure) this.secured = true;
OnOpenSecured(sec, secd) == IF sec THEN TRUE ELSE secd

\* socket.onopen: the connection attempt of WebSocket c succeeded.
OpenEvent(c) ==
    /\ chan[c].state = "connecting"
    /\ chan' = [chan EXCEPT ![c].state = "open"]
    /\ conn' = IF c = socket THEN [conn EXCEPT !.opened = TRUE] ELSE conn
    /\ secured' = OnOpenSecured(secure, secured)
    /\ last' = Did("open", "handled", c)
    /\ UNCHANGED <<socket, secure, host, port, endpoint, listener, tasks>>

\* socket.onmessage: WebSocket c delivers a text message.
MessageEvent(c) ==
    /\ chan[c].state = "open"
    /\ last' = [Did("message", "handled", c) EXCEPT !.data = Utf8(Payload)]
    /\ UNCHANGED <<self, listener, chan, conn, tasks>>

\* socket.onerror without the test for the hook.
NotifiesErrorAlways(l) == TRUE

\* if ((this.listener) && (this.listener.onError))
NotifiesError(l) == HasHook(l, "onError")

\* socket.onerror: WebSocket c reports an error.
ErrorEvent(c) ==
    /\ chan[c].state \in Live
    /\ last' = IF NotifiesError(listener)
               THEN [Did("error", "handled", c) EXCEPT
                         !.note = "onError", !.data = ErrorMessage]
               ELSE Did("error", "handled", c)
    /\ UNCHANGED <<self, listener, chan, conn, tasks>>

\* if ((this.listener) && (this.listener.onDisconnect))
NotifiesDisconnect(l) == HasHook(l, "onDisconnect")

\* The origin of the disconnect() a close event of WebSocket c starts: the
\* handler set at line 114 stays on c after the client has released it, so it
\* can run while this.socket is a later WebSocket.
CloseOrigin(c) ==
    IF socket # Null /\ socket # c THEN "lateEvent" ELSE "event"

\* socket.onclose: WebSocket c is closed, after its own close() or by the
\* peer.  The handler calls this.disconnect() without awaiting it, so the
\* call runs to its first await and the handler goes on to the listener.
CloseEvent(c) ==
    /\ chan[c].state \in Live
    /\ chan' = [chan EXCEPT ![c].state = "closed"]
    /\ tasks' = tasks (+) SetToBag({NewTask(CloseOrigin(c))})
    /\ last' = IF NotifiesDisconnect(listener)
               THEN [Did("close", "handled", c) EXCEPT !.note = "onDisconnect"]
               ELSE Did("close", "handled", c)
    /\ UNCHANGED <<self, listener, conn>>

\* ------------------------------------------------------------------- onSend
\* this.socket?.send(data): nothing happens without a socket.
SendOutcomeOptional(sock) ==
    IF sock = Null THEN "discarded"
    ELSE IF chan[sock].state = "connecting" THEN "InvalidStateError"
    ELSE IF chan[sock].state = "open" THEN "sent"
    ELSE "discarded"

\* this.socket.send(data) by the state of the socket: a TypeError on null,
\* an InvalidStateError while connecting; a closing or closed WebSocket
\* discards the data and returns.
SendOutcome(sock) ==
    IF sock = Null THEN "TypeError"
    ELSE IF chan[sock].state = "connecting" THEN "InvalidStateError"
    ELSE IF chan[sock].state = "open" THEN "sent"
    ELSE "discarded"

\* onSend(data)
OnSend ==
    /\ last' = [Did("onSend", SendOutcome(socket), socket) EXCEPT
                    !.data = IF SendOutcome(socket) = "sent" THEN Payload ELSE <<>>]
    /\ UNCHANGED <<self, listener, chan, conn, tasks>>

\* -------------------------------------------------------------------- system
Next ==
    \/ \E url \in Urls, sec \in BOOLEAN : Connect(url, sec)
    \/ Disconnect
    \/ StartTLS
    \/ \E t \in BagToSet(tasks) : Teardown(t)
    \/ \E t \in BagToSet(tasks) : TeardownDone(t)
    \/ \E c \in DOMAIN chan : OpenEvent(c)
    \/ \E c \in DOMAIN chan : MessageEvent(c)
    \/ \E c \in DOMAIN chan : ErrorEvent(c)
    \/ \E c \in DOMAIN chan : CloseEvent(c)
    \/ OnSend

Spec == Init /\ [][Next]_vars

\* ------------------------------------------------------------ url parsing
\* The characters of the generated urls: a letter, a digit, the colon, the
\* slash.
UrlAlphabet == {"h", "1", ":", "/"}

\* The strings of at most n characters.
Strings(n) == UNION {[1..k -> UrlAlphabet] : k \in 0..n}

\* The urls connect() is called with: every string after the scheme, and
\* strings with another scheme or with text before the scheme.
UrlStrings ==
    {SievePrefix \o r : r \in Strings(MaxRest)}
      \cup {UrlBadScheme, <<"h">> \o UrlPlain, SubSeq(UrlPlain, 2, Len(UrlPlain))}

\* A new instance on which connect(url, ...) is being called: last holds the
\* url of the call.
InitUrl ==
    /\ socket = Null
    /\ secure = TRUE
    /\ secured = FALSE
    /\ host = Undefined
    /\ port = Undefined
    /\ endpoint = Undefined
    /\ listener \in Listeners
    /\ chan = <<>>
    /\ conn = NoConn
    /\ tasks = EmptyBag
    /\ \E url \in UrlStrings :
          last = [Did("connect", "called", Null) EXCEPT !.data = url]

\* The call of connect() runs.
ConnectCalled ==
    /\ last.ret = "called"
    /\ \E sec \in BOOLEAN : Connect(last.data, sec)

SpecUrl == InitUrl /\ [][ConnectCalled]_vars

\* ------------------------------------------------------------- properties
\* The urls named malformed: the port missing, the scheme wrong, the host
\* empty.
MalformedUrls == {UrlNoPort, UrlBadScheme, UrlNoHost}

\* The number of calls of a hook one notification makes: one if the listener
\* has the hook, none otherwise.
HookCalls(hook) == IF HasHook(listener, hook) THEN 1 ELSE 0

\* C1: a disconnect() on an instance that holds a channel closes that channel
\* exactly once, nulls the handle and calls onDisconnected exactly once (when
\* the listener has the hook); the disconnect() calls that follow close
\* nothing and notify nothing.  So: the held WebSocket has had no close(),
\* every WebSocket no longer held has had exactly one close() and exactly one
\* onDisconnected call, the handle is null after every teardown, and a
\* teardown that closed nothing called no hook.
C1_DisconnectClosesOnce ==
    /\ \A c \in DOMAIN chan :
          IF socket = c
          THEN chan[c].closeCalls = 0 /\ chan[c].released = 0
          ELSE chan[c].closeCalls = 1 /\ chan[c].released = HookCalls("onDisconnected")
    /\ last.op = "teardown" => socket = Null
    /\ (last.op = "teardown" /\ last.chan = Null) => last.note = "none"

\* A disconnect() has closed a WebSocket that was still connecting, and a
\* further disconnect() has run after it and closed nothing.
C1_Witness ==
    /\ last.op = "teardown"
    /\ last.chan = Null
    /\ socket = Null
    /\ Len(chan) = 1
    /\ chan[1].state = "closing"
    /\ chan[1].closeCalls = 1
    /\ chan[1].released = 1

\* C2: connect(url, secure) on an instance that already holds a channel
\* returns the instance, creates no WebSocket and leaves the handle, the
\* endpoint, isSecure() and isSecured() as they are, for every url and every
\* secure; at most one WebSocket that was never closed exists.
C2_ConnectTwiceIsNoop ==
    [][/\ \A url \in Urls, sec \in BOOLEAN :
            (socket # Null /\ Connect(url, sec)) =>
               /\ UNCHANGED <<socket, host, port, endpoint, chan>>
               /\ isSecure' = isSecure
               /\ isSecured' = isSecured
               /\ last'.ret = "this"
       /\ Cardinality({c \in DOMAIN chan' : chan'[c].closeCalls = 0}) <= 1]_vars

\* A connect() returned the instance without opening a WebSocket (no address
\* was built) while a WebSocket opened for another url was held.
C2_Witness ==
    /\ last.op = "connect"
    /\ last.ret = "this"
    /\ last.data = <<>>
    /\ socket # Null
    /\ endpoint = Undefined
    /\ ~secure

\* C3: when a close event is handled, onDisconnect is called only after the
\* teardown: the handle is null by then, the WebSocket has had its close()
\* and onDisconnected has been called.
C3_TeardownBeforeOnDisconnect ==
    last.note = "onDisconnect" =>
        /\ socket = Null
        /\ chan[last.chan].closeCalls >= 1
        /\ chan[last.chan].released >= HookCalls("onDisconnected")

C5_SecuredFollowsOpen ==
    socket # Null =>
        /\ (conn.secureArg /\ conn.opened) => isSecured
        /\ ~conn.secureArg => ~isSecured

\* The second connection of a run, asked secure, has had its open event.
C5_Witness ==
    /\ socket = 2
    /\ conn.secureArg
    /\ conn.opened
    /\ isSecured

\* C6: isSecured() implies isSecure().
C6_SecuredImpliesSecure == isSecured => isSecure

\* Security is established on the held channel.
C6_Witness == isSecured /\ socket # Null /\ chan[socket].state = "open"

\* C7: while a channel is held, isSecure() is the secure argument of the
\* connect() call that made it.
C7_SecureIsTheArgument == socket # Null => isSecure = conn.secureArg

\* A plain connection is open, and a later connect() has returned without
\* opening anything.
C7_Witness ==
    /\ socket # Null
    /\ ~conn.secureArg
    /\ conn.opened
    /\ last.op = "connect"
    /\ last.data = <<>>

\* C8: startTLS() fails as unsupported in every state, changes neither the
\* handle nor isSecure() nor isSecured(), sends nothing and calls no hook.
C8_StartTLSUnsupported ==
    [][last'.op = "startTLS" =>
          /\ UNCHANGED <<self, chan, conn, tasks>>
          /\ last'.ret = "UnsupportedOperation"
          /\ last'.note = "none"
          /\ last'.data = <<>>]_vars

\* startTLS() has failed on an open secured connection.
C8_Witness ==
    /\ last.op = "startTLS"
    /\ last.ret = "UnsupportedOperation"
    /\ socket # Null
    /\ chan[socket].state = "open"
    /\ isSecured

\* C9, as claimed: connect with a malformed url fails with InvalidUrl and
\* creates no channel, whatever the state of the instance.
C9_MalformedAlwaysFails ==
    [][\A url \in MalformedUrls, sec \in BOOLEAN :
          Connect(url, sec) => (last'.ret = "InvalidUrl" /\ chan' = chan)]_vars

\* C9, amended: connect with a malformed url creates no channel and changes
\* nothing; it fails with InvalidUrl when no channel is held, and returns the
\* instance when one is.
C9_MalformedFailsUnlessConnected ==
    [][\A url \in MalformedUrls, sec \in BOOLEAN :
          Connect(url, sec) =>
             /\ UNCHANGED <<self, chan, conn, tasks>>
             /\ last'.ret = IF socket = Null THEN "InvalidUrl" ELSE "this"]_vars

\* A connect() has failed with InvalidUrl on an instance that was connected
\* before and torn down.
C9_Witness ==
    /\ last.op = "connect"
    /\ last.ret = "InvalidUrl"
    /\ socket = Null
    /\ Len(chan) > 0

\* C10: onDisconnect is never called for a WebSocket that a disconnect() of
\* the owning client closed.
C10_OnDisconnectOnlyUnsolicited ==
    last.note = "onDisconnect" => chan[last.chan].closedBy # "caller"

\* The state of the connection, from the WebSocket made last: Disconnected
\* before the first connect() and once a teardown has closed it, Connected
\* once its open event was handled, Connecting in between.
ConnState ==
    IF chan = <<>> \/ chan[Len(chan)].closeCalls > 0 THEN "Disconnected"
    ELSE IF conn.opened THEN "Connected"
    ELSE "Connecting"

\* C11, as claimed: the handle is non-null exactly in the Connected-or-later
\* states; it is null in Disconnected and in Connecting.
C11_HandleOnlyWhenConnected == (socket # Null) <=> (ConnState = "Connected")

\* C11, amended: the handle is non-null exactly from the connect() that makes
\* the channel to the teardown that closes it, in Connecting as in Connected.
C11_HandleFromConnectToTeardown == (socket # Null) <=> (ConnState # "Disconnected")

\* The open event was handled and the peer has closed the WebSocket; no
\* teardown has run yet, and the handle is still there.
C11_Witness ==
    /\ socket # Null
    /\ ConnState = "Connected"
    /\ chan[socket].state = "closed"

\* The urls that are well formed.
WellFormedUrls == {UrlPlain, UrlWithPath}

\* C12: on an instance whose handle is null, a connect(url, secure) with a
\* well-formed url makes exactly one new WebSocket and holds it, isSecure()
\* is the new argument and isSecured() is false; and isSecured() stays false
\* on a held channel until its open event is handled.
C12_ReconnectStartsFresh ==
    [][/\ \A url \in WellFormedUrls, sec \in BOOLEAN :
            (socket = Null /\ Connect(url, sec)) =>
               /\ chan' = Append(chan, NewWebSocket)
               /\ socket' = Len(chan')
               /\ isSecure' = sec
               /\ ~isSecured'
               /\ last'.ret = "this"
       /\ (socket' # Null /\ ~conn'.opened) => ~isSecured']_vars

\* A second connection was made, plain, and its open event is still to come.
C12_Witness ==
    /\ last.op = "connect"
    /\ last.data # <<>>
    /\ socket = 2
    /\ chan[1].closeCalls = 1
    /\ ~isSecure
    /\ ~isSecured

\* C13: the handler of an error event calls onError with the error's message
\* exactly when the listener has the hook, and changes nothing: no close(),
\* no teardown, no other hook.
C13_ErrorEventOnlyNotifies ==
    [][last'.op = "error" =>
          /\ UNCHANGED <<self, chan, conn, tasks>>
          /\ IF HasHook(listener, "onError")
             THEN last'.note = "onError" /\ last'.data = ErrorMessage
             ELSE last'.note = "none" /\ last'.data = <<>>]_vars

\* An error event of the held WebSocket was passed to onError.
C13_Witness ==
    /\ last.op = "error"
    /\ last.note = "onError"
    /\ last.chan = socket
    /\ chan[socket].state = "open"

\* C14: onSend(data) with no channel (none yet, or torn down) or with the
\* channel still connecting fails with an error; it neither transmits nor
\* discards the data.
C14_SendBeforeConnectedFails ==
    (last.op = "onSend" /\ (socket = Null \/ chan[socket].state = "connecting")) =>
        /\ last.ret \in {"TypeError", "InvalidStateError"}
        /\ last.data = <<>>

\* onSend() has failed after a teardown.
C14_Witness ==
    /\ last.op = "onSend"
    /\ last.ret = "TypeError"
    /\ socket = Null
    /\ Len(chan) > 0

\* The urls of the form sieve://host:port[/path], by their parts: a host
\* that is not empty and has no colon, a port of digits only, and a path or
\* none.
ColonFree(w) == \A i \in 1..Len(w) : w[i] # ":"

AllDigits(w) == \A i \in 1..Len(w) : w[i] \in Digits

Compose(w) ==
    SievePrefix \o w.host \o <<":">> \o w.port
      \o (IF w.endpoint = Undefined THEN <<>> ELSE <<"/">> \o w.endpoint)

WellFormedParts ==
    {w \in [host : {h \in Strings(MaxRest - 2) : Len(h) >= 1 /\ ColonFree(h)},
            port : {p \in Strings(MaxRest - 2) : Len(p) >= 1 /\ AllDigits(p)},
            endpoint : Strings(MaxRest - 3) \cup {Undefined}] :
        Len(Compose(w)) <= Len(SievePrefix) + MaxRest}

WellFormedStrings == {Compose(w) : w \in WellFormedParts}

ClaimedAddress ==
    (IF conn.secureArg THEN <<"w", "s", "s">> ELSE <<"w", "s">>)
      \o <<":", "/", "/">> \o host \o <<":">> \o port \o <<"/">>
      \o (IF endpoint = Undefined THEN <<>> ELSE endpoint)

\* C16: the address a WebSocket is created with has the scheme wss exactly
\* when the secure argument of the connect() call was true, and is made of
\* the parsed host, port and path; a url without a path gives an empty path.
C16_AddressFromParsedParts ==
    (last.op = "connect" /\ last.ret = "this" /\ last.data # <<>>)
        => last.data = ClaimedAddress

\* C17: whatever the interleaving of disconnect() calls and close-event
\* handlers, each suspended at its awaits, disconnect() calls close() on a
\* WebSocket at most once, calls onDisconnected at most once for it, and no
\* longer holds it once it has closed it (so it clears the handle to it once).
C17_TeardownOncePerChannel ==
    \A c \in DOMAIN chan :
        /\ chan[c].closeCalls <= 1
        /\ chan[c].released <= chan[c].closeCalls
        /\ chan[c].closeCalls = 1 => socket # c

\* Two disconnects were in flight for WebSocket 1, one of the caller and one
\* of its close event: the first closed it and notified, the second has just
\* returned at the guard.
C17_Witness ==
    /\ last.op = "teardown"
    /\ last.ret = "resolved"
    /\ last.chan = Null
    /\ Len(chan) = 1
    /\ chan[1].state = "closed"
    /\ chan[1].closeCalls = 1
    /\ chan[1].released = 1
    /\ \E t \in BagToSet(tasks) : t.pc = "notify"

\* C18: the handlers of a WebSocket end with its teardown: once
\* disconnect() has released WebSocket A and connect() has created B, a close
\* event of A calls no onDisconnect, and the disconnect() it starts does not
\* close B, clear the handle to B or call onDisconnected for B.
C18_ReleasedChannelIsSilent ==
    /\ (last.op = "close" /\ socket # Null /\ socket # last.chan)
           => last.note = "none"
    /\ \A c \in DOMAIN chan : chan[c].closedBy # "lateEvent"

\* C19: the WebSocket the instance holds when connect() has returned is not
\* released by a disconnect() that was already in flight, suspended at its
\* await, when connect() was called.
C19_InFlightTeardownSparesChannel ==
    [][(last.op = "connect" /\ last.ret = "this" /\ socket # Null)
          => \A t \in BagToSet(tasks) : Teardown(t) => socket' = socket]_vars

\* C20: whenever the instance holds no WebSocket, before the first connect()
\* and after any teardown, isSecured() is false.
C20_NoChannelNotSecured == socket = Null => ~isSecured

====
